---- MODULE Spec2Model ----
(***************************************************************************)
(* Sense HAT sensor platform (homeassistant/components/sensor/sensehat.py). *)
(*                                                                         *)
(* Numbers.  A Python float is an IEEE 754 double and is modelled as one:  *)
(* <<sign, man, exp>> is the number sign * man * 2^exp, with sign 1 or -1, *)
(* man an odd natural number below 2^53 and exp an integer, so that equal  *)
(* numbers are equal values; zero is <<1, <<>>, 0>>.  man is a natural     *)
(* number of any size, written as the sequence of its digits in base 2^15, *)
(* the least significant first and without leading zeros (39 is <<39>>,    *)
(* 2^15 + 3 is <<3, 1>>, 0 is <<>>); 19.5 is <<1, <<39>>, -1>>.  +, - and  *)
(* / round their exact result to the nearest double, ties to the even      *)
(* significand, as the hardware does.  Infinities, NaN, negative zero and  *)
(* subnormal numbers do not arise from temperatures and are left out.      *)
(* Python's None is <<>>.                                                  *)
(* The result of evaluating a Python expression or call is a record        *)
(* [exc, val]: exc = "none" when it returned val, else the exception name. *)
(***************************************************************************)
EXTENDS Integers, Sequences, FiniteSets, TLC

VARIABLES
    sensors,           \* set of ids of the sensor instances constructed
    kind,              \* id -> "humidity" | "pressure" | "temperature"
    from_sensor,       \* id -> TemperatureSensor._from_sensor
    is_attached,       \* id -> TemperatureSensor._is_attached
    state,             \* id -> GenericSensor._state
    readings_history,  \* id -> TemperatureSensor._readings_history
    last_run,          \* id -> time of the last successful run of update()
    now,               \* wall clock, seconds
    call               \* the last operation performed and what it did

vars == <<sensors, kind, from_sensor, is_attached, state, readings_history,
          last_run, now, call>>

-----------------------------------------------------------------------------
(* Program constants *)

MIN_TIME_BETWEEN_UPDATES == 60

MAX_READING_HISTORY_SIZE == 5

-----------------------------------------------------------------------------
(* Bounds of the model *)

\* the clock stops advancing here
MaxTime == 90

\* longest starting history handed to _update_readings_history directly
MaxLen == 5

\* largest capacity handed to _update_readings_history directly
MaxCap == 5

\* the clock of the smoothing scenario stops here: six polling periods
MaxTimeSmoothing == 450

\* the clock of the two-sensor platform stops here
MaxTimePair == 60

-----------------------------------------------------------------------------
(* Natural numbers of any size *)

\* limbs hold LimbBits bits
LimbBits == 15

Base == 2 ^ LimbBits

\* bits of the significand of a double
MantissaBits == 53

\* the element of a set that has one: The({e : v \in {d}}) is e with v
\* standing for the value of d
The(S) == CHOOSE x \in S : TRUE

Abs(x) == IF x < 0 THEN -x ELSE x

Max(a, b) == IF a >= b THEN a ELSE b

Min(a, b) == IF a <= b THEN a ELSE b

Limb(x, i) == IF i >= 1 /\ i <= Len(x) THEN x[i] ELSE 0

RECURSIVE BTrim(_)
BTrim(x) ==
    IF x # <<>> /\ x[Len(x)] = 0 THEN BTrim(SubSeq(x, 1, Len(x) - 1)) ELSE x

\* a natural number below 2^31
RECURSIVE BFromInt(_)
BFromInt(n) == IF n = 0 THEN <<>> ELSE <<n % Base>> \o BFromInt(n \div Base)

RECURSIVE BAddFrom(_, _, _, _)
BAddFrom(x, y, i, carry) ==
    IF i > Len(x) /\ i > Len(y)
    THEN IF carry = 0 THEN <<>> ELSE <<carry>>
    ELSE LET t == Limb(x, i) + Limb(y, i) + carry
         IN  <<t % Base>> \o BAddFrom(x, y, i + 1, t \div Base)

BAdd(x, y) == BAddFrom(x, y, 1, 0)

\* x - y for x >= y
RECURSIVE BSubFrom(_, _, _, _)
BSubFrom(x, y, i, borrow) ==
    IF i > Len(x) THEN <<>>
    ELSE LET t == Limb(x, i) - Limb(y, i) - borrow
         IN  IF t < 0
             THEN <<t + Base>> \o BSubFrom(x, y, i + 1, 1)
             ELSE <<t>> \o BSubFrom(x, y, i + 1, 0)

BSub(x, y) == BTrim(BSubFrom(x, y, 1, 0))

\* -1, 0, 1 as x is below, equal to, above y
BCmp(x, y) ==
    IF Len(x) # Len(y) THEN (IF Len(x) < Len(y) THEN -1 ELSE 1)
    ELSE LET diff == {i \in 1..Len(x) : x[i] # y[i]}
         IN  IF diff = {} THEN 0
             ELSE LET i == CHOOSE j \in diff : \A l \in diff : l <= j
                  IN  IF x[i] < y[i] THEN -1 ELSE 1

\* x * 2^k
BShl(x, k) ==
    LET q == k \div LimbBits
        r == k % LimbBits
    IN  IF x = <<>> \/ k = 0 THEN x
        ELSE BTrim([j \in 1..(Len(x) + q + 1) |->
                      IF j <= q THEN 0
                      ELSE ((Limb(x, j - q) * (2 ^ r)) % Base)
                           + ((Limb(x, j - q - 1) * (2 ^ r)) \div Base)])

\* x \div 2^k
BShr(x, k) ==
    LET q == k \div LimbBits
        r == k % LimbBits
    IN  IF Len(x) <= q THEN <<>>
        ELSE BTrim([j \in 1..(Len(x) - q) |->
                      (Limb(x, j + q) \div (2 ^ r))
                      + (Limb(x, j + q + 1) % (2 ^ r))
                        * (2 ^ (LimbBits - r))])

\* x % 2^k
BLowBits(x, k) ==
    LET q == k \div LimbBits
        r == k % LimbBits
    IN  IF Len(x) <= q THEN x
        ELSE BTrim([j \in 1..(q + 1) |->
                      IF j <= q THEN x[j] ELSE x[j] % (2 ^ r)])

\* number of bits of x: 0 for zero
BBitLen(x) ==
    IF x = <<>> THEN 0
    ELSE (LimbBits * (Len(x) - 1))
         + (CHOOSE b \in 1..LimbBits :
                (2 ^ (b - 1)) <= x[Len(x)] /\ x[Len(x)] < (2 ^ b))

\* number of trailing zero bits of x # 0
BCtz(x) ==
    LET i == CHOOSE j \in 1..Len(x) :
                 x[j] # 0 /\ \A l \in 1..(j - 1) : x[l] = 0
    IN  (LimbBits * (i - 1))
        + (CHOOSE t \in 0..(LimbBits - 1) :
               x[i] % (2 ^ t) = 0 /\ x[i] % (2 ^ (t + 1)) # 0)

BIsOdd(x) == x # <<>> /\ x[1] % 2 = 1

\* x * c + a for naturals c, a below Base
RECURSIVE BMulAddFrom(_, _, _, _)
BMulAddFrom(x, c, i, carry) ==
    IF i > Len(x) THEN (IF carry = 0 THEN <<>> ELSE <<carry>>)
    ELSE LET t == (x[i] * c) + carry
         IN  <<t % Base>> \o BMulAddFrom(x, c, i + 1, t \div Base)

BMulAdd(x, c, a) == BTrim(BMulAddFrom(x, c, 1, a))

\* quotient and remainder of x by a natural 1 <= d < Base, from the top limb
RECURSIVE BDivSmallFrom(_, _, _, _, _)
BDivSmallFrom(x, d, i, rem, acc) ==
    IF i = 0 THEN [q |-> BTrim(acc), r |-> BFromInt(rem)]
    ELSE LET t == (rem * Base) + x[i]
         IN  BDivSmallFrom(x, d, i - 1, t % d, <<t \div d>> \o acc)

BDivSmall(x, d) == BDivSmallFrom(x, d, Len(x), 0, <<>>)

\* one limb of a long division by y # 0: the bits of limb, from bit b down,
\* are brought down into the remainder rem < y; d collects the quotient bits
RECURSIVE BDivDigit(_, _, _, _, _)
BDivDigit(limb, y, b, d, rem) ==
    IF b = 0 THEN [d |-> d, r |-> rem]
    ELSE The({IF BCmp(r2, y) >= 0
              THEN BDivDigit(limb, y, b - 1, (2 * d) + 1, BSub(r2, y))
              ELSE BDivDigit(limb, y, b - 1, 2 * d, r2) :
                r2 \in {BAdd(BShl(rem, 1),
                             BFromInt((limb \div (2 ^ (b - 1))) % 2))}})

\* quotient and remainder of x by y # 0, limb by limb from the top limb
RECURSIVE BDivLongFrom(_, _, _, _, _)
BDivLongFrom(x, y, i, rem, acc) ==
    IF i = 0 THEN [q |-> BTrim(acc), r |-> rem]
    ELSE The({BDivLongFrom(x, y, i - 1, step.r, <<step.d>> \o acc) :
                step \in {BDivDigit(x[i], y, LimbBits, 0, rem)}})

BDivMod(x, y) ==
    IF Len(y) = 1 THEN BDivSmall(x, y[1])
    ELSE BDivLongFrom(x, y, Len(x), <<>>, <<>>)

-----------------------------------------------------------------------------
(* Python floats *)

Zero == <<1, <<>>, 0>>

\* sign * man * 2^exp with its trailing zero bits moved into the exponent
Canon(sign, man, exp) ==
    IF man = <<>> THEN Zero
    ELSE IF BIsOdd(man) THEN <<sign, man, exp>>
    ELSE The({<<sign, BShr(man, tz), exp + tz>> : tz \in {BCtz(man)}})

\* the double nearest to sign * man * 2^exp
Round(sign, man, exp) ==
    The({IF k <= 0 THEN Canon(sign, man, exp)
         ELSE The({Canon(sign,
                         IF c > 0 \/ (c = 0 /\ BIsOdd(q))
                         THEN BAdd(q, <<1>>) ELSE q,
                         exp + k) :
                     q \in {BShr(man, k)},
                     c \in {BCmp(BLowBits(man, k), BShl(<<1>>, k - 1))}}) :
           k \in {BBitLen(man) - MantissaBits}})

\* the int n (|n| < 2^31) as a float
Num(n) == Canon(IF n < 0 THEN -1 ELSE 1, BFromInt(Abs(n)), 0)

RNeg(a) == IF a = Zero THEN Zero ELSE <<-a[1], a[2], a[3]>>

\* a number whose leading bit is more than FarBelow places below the
\* leading bit of another is less than a quarter of a unit in its last place
FarBelow == MantissaBits + 3

\* a + b
RAdd(a, b) ==
    IF a = Zero THEN b
    ELSE IF b = Zero THEN a
    ELSE IF (a[3] + BBitLen(a[2])) - (b[3] + BBitLen(b[2])) > FarBelow
    THEN a
    ELSE IF (b[3] + BBitLen(b[2])) - (a[3] + BBitLen(a[2])) > FarBelow
    THEN b
    ELSE The({IF a[1] = b[1] THEN Round(a[1], BAdd(am, bm), Min(a[3], b[3]))
              ELSE IF BCmp(am, bm) >= 0
              THEN Round(a[1], BSub(am, bm), Min(a[3], b[3]))
              ELSE Round(b[1], BSub(bm, am), Min(a[3], b[3])) :
                am \in {BShl(a[2], a[3] - Min(a[3], b[3]))},
                bm \in {BShl(b[2], b[3] - Min(a[3], b[3]))}})

\* a - b
RSub(a, b) == RAdd(a, RNeg(b))

\* the double nearest to sign * (x / y) * 2^exp for natural numbers x and
\* y # 0: their quotient to 56 bits or more, with a last bit telling whether
\* a remainder was left, rounded
RoundedQuotient(sign, x, y, exp) ==
    IF x = <<>> THEN Zero
    ELSE The({The({Round(sign,
                         BAdd(BShl(dm.q, 1),
                              IF dm.r = <<>> THEN <<>> ELSE <<1>>),
                         exp - sh - 1) :
                     dm \in {BDivMod(BShl(x, sh), y)}}) :
                sh \in {Max(0, MantissaBits + 3 + BBitLen(y) - BBitLen(x))}})

\* a / b, b # 0
RDiv(a, b) == RoundedQuotient(a[1] * b[1], a[2], b[2], a[3] - b[3])

\* the double nearest to n/d (ints, d # 0): what the literal or the text
\* of a decimal number with a few digits denotes
Rat(n, d) == RDiv(Num(n), Num(d))

\* the literals 1.5 and 2
OneAndAHalf == Rat(3, 2)

Two == Num(2)

\* a <= b
RLeq(a, b) == \E d \in {RSub(a, b)} : d = Zero \/ d[1] = -1

-----------------------------------------------------------------------------
(* Python values *)

None == <<>>

Ok(v) == [exc |-> "none", val |-> v]

Raise(e) == [exc |-> e, val |-> None]

\* Python's a + b on floats and None
PyAdd(a, b) ==
    IF a = None \/ b = None THEN Raise("TypeError") ELSE Ok(RAdd(a, b))

\* Python's a / b, b a non-None number
PyDiv(a, b) ==
    IF a = None THEN Raise("TypeError")
    ELSE IF b = Zero THEN Raise("ZeroDivisionError")
    ELSE Ok(RDiv(a, b))

\* Python's sum(xs): 0 + xs[1] + ... + xs[n], left to right
RECURSIVE PySumFrom(_, _)
PySumFrom(acc, xs) ==
    IF xs = <<>> THEN Ok(acc)
    ELSE The({IF r.exc # "none" THEN r ELSE PySumFrom(r.val, Tail(xs)) :
                r \in {PyAdd(acc, Head(xs))}})

PySum(xs) == PySumFrom(Num(0), xs)

-----------------------------------------------------------------------------
(* Text handling of _get_cpu_temperature: a string is a sequence of        *)
(* one-character strings.                                                  *)

Digits == <<"0", "1", "2", "3", "4", "5", "6", "7", "8", "9">>

IsDigit(c) == \E i \in 1..10 : Digits[i] = c

DigitVal(c) == (CHOOSE i \in 1..10 : Digits[i] = c) - 1

StartsWith(s, sub) ==
    /\ Len(s) >= Len(sub)
    /\ SubSeq(s, 1, Len(sub)) = sub

\* str.replace(sub, ""), sub non-empty: drops the occurrences of sub, scanning
\* from the left
RECURSIVE Remove(_, _)
Remove(s, sub) ==
    IF s = <<>> THEN <<>>
    ELSE IF StartsWith(s, sub)
         THEN Remove(SubSeq(s, Len(sub) + 1, Len(s)), sub)
         ELSE <<Head(s)>> \o Remove(Tail(s), sub)

IsSpace(c) == c \in {" ", "\n", "\t", "\r"}

RECURSIVE LStrip(_)
LStrip(s) ==
    IF s # <<>> /\ IsSpace(Head(s)) THEN LStrip(Tail(s)) ELSE s

RECURSIVE RStrip(_)
RStrip(s) ==
    IF s # <<>> /\ IsSpace(s[Len(s)])
    THEN RStrip(SubSeq(s, 1, Len(s) - 1)) ELSE s

\* the natural number a sequence of decimal digits denotes
RECURSIVE DigitsVal(_)
DigitsVal(s) ==
    IF s = <<>> THEN <<>>
    ELSE BMulAdd(DigitsVal(SubSeq(s, 1, Len(s) - 1)), 10, DigitVal(s[Len(s)]))

\* the natural number 10^k
RECURSIVE Pow10(_)
Pow10(k) == IF k = 0 THEN <<1>> ELSE BMulAdd(Pow10(k - 1), 10, 0)

AllDigits(s) == \A i \in 1..Len(s) : IsDigit(s[i])

\* float(s) for decimal literals [sign] digits [. digits] with surrounding
\* white space allowed: the double nearest to the number written; every
\* other text over the alphabet used here (no exponent, inf, nan or
\* underscore occurs in it) raises ValueError
PyFloat(s) ==
    LET t    == RStrip(LStrip(s))
        neg  == t # <<>> /\ Head(t) = "-"
        u    == IF t # <<>> /\ Head(t) \in {"-", "+"} THEN Tail(t) ELSE t
        dots == {i \in 1..Len(u) : u[i] = "."}
        p    == IF dots = {} THEN Len(u) + 1 ELSE CHOOSE i \in dots : TRUE
        ip   == SubSeq(u, 1, p - 1)
        fp   == SubSeq(u, p + 1, Len(u))
        wellformed ==
            /\ Cardinality(dots) <= 1
            /\ AllDigits(ip) /\ AllDigits(fp)
            /\ Len(ip) + Len(fp) >= 1
    IN  IF ~wellformed THEN Raise("ValueError")
        ELSE Ok(RoundedQuotient(IF neg THEN -1 ELSE 1, DigitsVal(ip \o fp),
                                Pow10(Len(fp)), 0))

\* _get_cpu_temperature(), info being what "vcgencmd measure_temp" printed
get_cpu_temperature(info) ==
    PyFloat(Remove(Remove(info, <<"t", "e", "m", "p", "=">>),
                   <<"'", "C", "\n">>))

-----------------------------------------------------------------------------
(* Module-level helpers *)

\* as _normalise_current_temperature, passing through only a None reading
\* of a board that is not attached ("and" for "or")
normalise_current_temperature_and(temperature, hat_attached, info) ==
    IF temperature = None /\ ~hat_attached
    THEN [exc |-> "none", val |-> temperature, cpu_read |-> FALSE]
    ELSE The({IF cpu.exc # "none"
              THEN [exc |-> cpu.exc, val |-> None, cpu_read |-> TRUE]
              ELSE IF temperature = None
              THEN [exc |-> "TypeError", val |-> None, cpu_read |-> TRUE]
              ELSE [exc |-> "none",
                    val |-> RSub(temperature,
                                 RDiv(RSub(cpu.val, temperature),
                                      OneAndAHalf)),
                    cpu_read |-> TRUE] :
                cpu \in {get_cpu_temperature(info)}})

\* as _normalise_current_temperature, adding the correction
normalise_current_temperature_plus(temperature, hat_attached, info) ==
    IF temperature = None \/ ~hat_attached
    THEN [exc |-> "none", val |-> temperature, cpu_read |-> FALSE]
    ELSE The({IF cpu.exc # "none"
              THEN [exc |-> cpu.exc, val |-> None, cpu_read |-> TRUE]
              ELSE [exc |-> "none",
                    val |-> RAdd(temperature,
                                 RDiv(RSub(cpu.val, temperature),
                                      OneAndAHalf)),
                    cpu_read |-> TRUE] :
                cpu \in {get_cpu_temperature(info)}})

\* _normalise_current_temperature(temperature, hat_attached); info is the
\* line the CPU temperature source prints if it is asked.  cpu_read tells
\* whether it was asked.
normalise_current_temperature(temperature, hat_attached, info) ==
    IF temperature = None \/ ~hat_attached
    THEN [exc |-> "none", val |-> temperature, cpu_read |-> FALSE]
    ELSE The({IF cpu.exc # "none"
              THEN [exc |-> cpu.exc, val |-> None, cpu_read |-> TRUE]
              ELSE [exc |-> "none",
                    val |-> RSub(temperature,
                                 RDiv(RSub(cpu.val, temperature),
                                      OneAndAHalf)),
                    cpu_read |-> TRUE] :
                cpu \in {get_cpu_temperature(info)}})

\* readings_history.pop(0), k times
RECURSIVE PopFront(_, _)
PopFront(h, k) == IF k <= 0 THEN h ELSE PopFront(Tail(h), k - 1)

\* as _update_readings_history, with the overflow test off by one
update_readings_history_late(h, new_reading, max_history_size) ==
    LET appended == Append(h, new_reading)
    IN  IF Len(appended) > max_history_size + 1
        THEN PopFront(appended, Len(appended) - max_history_size)
        ELSE appended

\* as _update_readings_history, evicting one reading at most
update_readings_history_pop_once(h, new_reading, max_history_size) ==
    LET appended == Append(h, new_reading)
    IN  IF Len(appended) > max_history_size
        THEN Tail(appended)
        ELSE appended

\* _update_readings_history(readings_history, new_reading, max_history_size):
\* the list after the call (max_history_size >= 0)
update_readings_history(h, new_reading, max_history_size) ==
    LET appended == Append(h, new_reading)
    IN  IF Len(appended) > max_history_size
        THEN PopFront(appended, Len(appended) - max_history_size)
        ELSE appended

-----------------------------------------------------------------------------
(* The collaborators: what the sensor-board driver and the CPU temperature *)
(* source answer when they are asked.                                       *)

\* a driver read fails
DriverError == Raise("OSError")

HumidityOutcomes == {Ok(None), Ok(Rat(56789, 1000)), Ok(Num(40)), DriverError}

PressureOutcomes == {Ok(None), Ok(Rat(987654, 1000)), Ok(Num(1013)), DriverError}

\* get_temperature_from_humidity: 19.5 and 24.9 degrees
HumidityTemperatureOutcomes ==
    {Ok(None), Ok(Rat(39, 2)), Ok(Rat(249, 10)), DriverError}

\* get_temperature_from_pressure: 21.5 degrees
PressureTemperatureOutcomes == {Ok(None), Ok(Rat(43, 2)), DriverError}

NoHat ==
    [get_humidity |-> Ok(None), get_pressure |-> Ok(None),
     get_temperature_from_humidity |-> Ok(None),
     get_temperature_from_pressure |-> Ok(None)]

\* the answers a sensor of kind k (a temperature sensor of source from) can
\* see: a channel of another kind of sensor is left at None, and the
\* temperature channel a sensor of a single source does not read answers
\* one number
Hats(k, from) ==
    IF k = "humidity"
    THEN {[NoHat EXCEPT !.get_humidity = v] : v \in HumidityOutcomes}
    ELSE IF k = "pressure"
    THEN {[NoHat EXCEPT !.get_pressure = v] : v \in PressureOutcomes}
    ELSE IF from = "humidity"
    THEN {[NoHat EXCEPT !.get_temperature_from_humidity = h,
                        !.get_temperature_from_pressure = Ok(Rat(43, 2))] :
            h \in HumidityTemperatureOutcomes}
    ELSE IF from = "pressure"
    THEN {[NoHat EXCEPT !.get_temperature_from_humidity = Ok(Rat(39, 2)),
                        !.get_temperature_from_pressure = p] :
            p \in PressureTemperatureOutcomes}
    ELSE {[NoHat EXCEPT !.get_temperature_from_humidity = h,
                        !.get_temperature_from_pressure = p] :
            h \in HumidityTemperatureOutcomes,
            p \in PressureTemperatureOutcomes}

\* "temp=48.9'C\n"
Info489 == <<"t", "e", "m", "p", "=", "4", "8", ".", "9", "'", "C", "\n">>

\* "temp=51'C\n"
Info51 == <<"t", "e", "m", "p", "=", "5", "1", "'", "C", "\n">>

\* "": the command printed nothing
InfoEmpty == <<>>

\* "VCHI initialization failed\n" cut to its first word
InfoFailed == <<"V", "C", "H", "I", "\n">>

NoInfo == <<"-">>

\* what the CPU temperature source prints during an update of a sensor
CpuInfos == {Info489, InfoEmpty}

-----------------------------------------------------------------------------
(* The sensors *)

NoRun == -1

\* Throttle(min_time): the wrapped method runs if it never ran to completion
\* or if more than min_time passed since it last did
Throttle(min_time, last, t) == last = NoRun \/ t - last > min_time

\* an update method left undecorated
update_runs_undecorated(last, t) == TRUE

\* the @Throttle(MIN_TIME_BETWEEN_UPDATES) decoration of the update methods
update_runs(last, t) == Throttle(MIN_TIME_BETWEEN_UPDATES, last, t)

\* as HumiditySensor.update, keeping the old state when the reading is None
HumiditySensor_update_skip_none(old_state, hat) ==
    LET v == hat.get_humidity
    IN  [exc |-> v.exc,
         state |-> IF v.exc = "none" /\ v.val # None THEN v.val
                   ELSE old_state,
         reads |-> <<<<"get_humidity", v>>>>]

\* HumiditySensor.update, undecorated
HumiditySensor_update(old_state, hat) ==
    LET v == hat.get_humidity
    IN  [exc |-> v.exc,
         state |-> IF v.exc = "none" THEN v.val ELSE old_state,
         reads |-> <<<<"get_humidity", v>>>>]

\* PressureSensor.update, undecorated
PressureSensor_update(old_state, hat) ==
    LET v == hat.get_pressure
    IN  [exc |-> v.exc,
         state |-> IF v.exc = "none" THEN v.val ELSE old_state,
         reads |-> <<<<"get_pressure", v>>>>]

\* as TemperatureSensor._get_temperature, with the two single sources
\* exchanged
get_temperature_swapped(from, hat) ==
    LET h  == hat.get_temperature_from_humidity
        p  == hat.get_temperature_from_pressure
        rh == <<"get_temperature_from_humidity", h>>
        rp == <<"get_temperature_from_pressure", p>>
    IN  IF from = "pressure"
        THEN [exc |-> h.exc, val |-> h.val, reads |-> <<rh>>]
        ELSE IF from = "humidity"
        THEN [exc |-> p.exc, val |-> p.val, reads |-> <<rp>>]
        ELSE IF h.exc # "none"
        THEN [exc |-> h.exc, val |-> None, reads |-> <<rh>>]
        ELSE IF p.exc # "none"
        THEN [exc |-> p.exc, val |-> None, reads |-> <<rh, rp>>]
        ELSE The({IF sum.exc # "none"
                  THEN [exc |-> sum.exc, val |-> None, reads |-> <<rh, rp>>]
                  ELSE The({[exc |-> half.exc, val |-> half.val,
                             reads |-> <<rh, rp>>] :
                              half \in {PyDiv(sum.val, Two)}}) :
                    sum \in {PyAdd(h.val, p.val)}})

\* as TemperatureSensor._get_temperature, averaging the two channels only
\* for "both" and reading the humidity channel for any other unknown source
get_temperature_exact_both(from, hat) ==
    LET h  == hat.get_temperature_from_humidity
        p  == hat.get_temperature_from_pressure
        rh == <<"get_temperature_from_humidity", h>>
        rp == <<"get_temperature_from_pressure", p>>
    IN  IF from # "both" /\ from # "pressure"
        THEN [exc |-> h.exc, val |-> h.val, reads |-> <<rh>>]
        ELSE IF from = "pressure"
        THEN [exc |-> p.exc, val |-> p.val, reads |-> <<rp>>]
        ELSE IF h.exc # "none"
        THEN [exc |-> h.exc, val |-> None, reads |-> <<rh>>]
        ELSE IF p.exc # "none"
        THEN [exc |-> p.exc, val |-> None, reads |-> <<rh, rp>>]
        ELSE The({IF sum.exc # "none"
                  THEN [exc |-> sum.exc, val |-> None, reads |-> <<rh, rp>>]
                  ELSE The({[exc |-> half.exc, val |-> half.val,
                             reads |-> <<rh, rp>>] :
                              half \in {PyDiv(sum.val, Two)}}) :
                    sum \in {PyAdd(h.val, p.val)}})

\* TemperatureSensor._get_temperature: reads lists the driver methods called,
\* in order, each with its outcome
get_temperature(from, hat) ==
    LET h  == hat.get_temperature_from_humidity
        p  == hat.get_temperature_from_pressure
        rh == <<"get_temperature_from_humidity", h>>
        rp == <<"get_temperature_from_pressure", p>>
    IN  IF from = "humidity"
        THEN [exc |-> h.exc, val |-> h.val, reads |-> <<rh>>]
        ELSE IF from = "pressure"
        THEN [exc |-> p.exc, val |-> p.val, reads |-> <<rp>>]
        ELSE IF h.exc # "none"
        THEN [exc |-> h.exc, val |-> None, reads |-> <<rh>>]
        ELSE IF p.exc # "none"
        THEN [exc |-> p.exc, val |-> None, reads |-> <<rh, rp>>]
        ELSE The({IF sum.exc # "none"
                  THEN [exc |-> sum.exc, val |-> None, reads |-> <<rh, rp>>]
                  ELSE The({[exc |-> half.exc, val |-> half.val,
                             reads |-> <<rh, rp>>] :
                              half \in {PyDiv(sum.val, Two)}}) :
                    sum \in {PyAdd(h.val, p.val)}})

\* as TemperatureSensor.update, clearing _state before it reads, so that a
\* failing update leaves None
TemperatureSensor_update_reset(from, attached, old_state, history, hat, info) ==
    The({
      IF t.exc # "none"
      THEN [exc |-> t.exc, state |-> None, history |-> history,
            reads |-> t.reads, cpu_read |-> FALSE, appended |-> <<>>]
      ELSE The({
        IF n.exc # "none"
        THEN [exc |-> n.exc, state |-> None, history |-> history,
              reads |-> t.reads, cpu_read |-> n.cpu_read,
              appended |-> <<>>]
        ELSE The({
          The({
            IF sum.exc # "none"
            THEN [exc |-> sum.exc, state |-> None, history |-> h2,
                  reads |-> t.reads, cpu_read |-> n.cpu_read,
                  appended |-> <<n.val>>]
            ELSE The({
              IF mean.exc # "none"
              THEN [exc |-> mean.exc, state |-> None,
                    history |-> h2, reads |-> t.reads,
                    cpu_read |-> n.cpu_read, appended |-> <<n.val>>]
              ELSE [exc |-> "none", state |-> mean.val, history |-> h2,
                    reads |-> t.reads, cpu_read |-> n.cpu_read,
                    appended |-> <<n.val>>] :
                mean \in {PyDiv(sum.val, Num(Len(h2)))}}) :
              sum \in {PySum(h2)}}) :
            h2 \in {update_readings_history(history, n.val,
                                             MAX_READING_HISTORY_SIZE)}}) :
          n \in {normalise_current_temperature(t.val, attached, info)}}) :
        t \in {get_temperature(from, hat)}})

\* as TemperatureSensor.update, averaging the history it had before the new
\* reading is appended
TemperatureSensor_update_average_first(from, attached, old_state, history, hat, info) ==
    The({
      IF t.exc # "none"
      THEN [exc |-> t.exc, state |-> old_state, history |-> history,
            reads |-> t.reads, cpu_read |-> FALSE, appended |-> <<>>]
      ELSE The({
        IF n.exc # "none"
        THEN [exc |-> n.exc, state |-> old_state, history |-> history,
              reads |-> t.reads, cpu_read |-> n.cpu_read,
              appended |-> <<>>]
        ELSE The({
          The({
            IF sum.exc # "none"
            THEN [exc |-> sum.exc, state |-> old_state, history |-> h2,
                  reads |-> t.reads, cpu_read |-> n.cpu_read,
                  appended |-> <<n.val>>]
            ELSE The({
              IF mean.exc # "none"
              THEN [exc |-> mean.exc, state |-> old_state,
                    history |-> h2, reads |-> t.reads,
                    cpu_read |-> n.cpu_read, appended |-> <<n.val>>]
              ELSE [exc |-> "none", state |-> mean.val, history |-> h2,
                    reads |-> t.reads, cpu_read |-> n.cpu_read,
                    appended |-> <<n.val>>] :
                mean \in {PyDiv(sum.val, Num(Len(history)))}}) :
              sum \in {PySum(history)}}) :
            h2 \in {update_readings_history(history, n.val,
                                             MAX_READING_HISTORY_SIZE)}}) :
          n \in {normalise_current_temperature(t.val, attached, info)}}) :
        t \in {get_temperature(from, hat)}})

\* as TemperatureSensor.update, dividing by the capacity of the history
\* instead of its length
TemperatureSensor_update_fixed_divisor(from, attached, old_state, history, hat, info) ==
    The({
      IF t.exc # "none"
      THEN [exc |-> t.exc, state |-> old_state, history |-> history,
            reads |-> t.reads, cpu_read |-> FALSE, appended |-> <<>>]
      ELSE The({
        IF n.exc # "none"
        THEN [exc |-> n.exc, state |-> old_state, history |-> history,
              reads |-> t.reads, cpu_read |-> n.cpu_read,
              appended |-> <<>>]
        ELSE The({
          The({
            IF sum.exc # "none"
            THEN [exc |-> sum.exc, state |-> old_state, history |-> h2,
                  reads |-> t.reads, cpu_read |-> n.cpu_read,
                  appended |-> <<n.val>>]
            ELSE The({
              IF mean.exc # "none"
              THEN [exc |-> mean.exc, state |-> old_state,
                    history |-> h2, reads |-> t.reads,
                    cpu_read |-> n.cpu_read, appended |-> <<n.val>>]
              ELSE [exc |-> "none", state |-> mean.val, history |-> h2,
                    reads |-> t.reads, cpu_read |-> n.cpu_read,
                    appended |-> <<n.val>>] :
                mean \in {PyDiv(sum.val, Num(MAX_READING_HISTORY_SIZE))}}) :
              sum \in {PySum(h2)}}) :
            h2 \in {update_readings_history(history, n.val,
                                             MAX_READING_HISTORY_SIZE)}}) :
          n \in {normalise_current_temperature(t.val, attached, info)}}) :
        t \in {get_temperature(from, hat)}})

\* as TemperatureSensor.update, publishing the new reading instead of the
\* mean of the history
TemperatureSensor_update_unsmoothed(from, attached, old_state, history, hat, info) ==
    The({
      IF t.exc # "none"
      THEN [exc |-> t.exc, state |-> old_state, history |-> history,
            reads |-> t.reads, cpu_read |-> FALSE, appended |-> <<>>]
      ELSE The({
        IF n.exc # "none"
        THEN [exc |-> n.exc, state |-> old_state, history |-> history,
              reads |-> t.reads, cpu_read |-> n.cpu_read,
              appended |-> <<>>]
        ELSE The({
          The({
            IF sum.exc # "none"
            THEN [exc |-> sum.exc, state |-> old_state, history |-> h2,
                  reads |-> t.reads, cpu_read |-> n.cpu_read,
                  appended |-> <<n.val>>]
            ELSE The({
              IF mean.exc # "none"
              THEN [exc |-> mean.exc, state |-> old_state,
                    history |-> h2, reads |-> t.reads,
                    cpu_read |-> n.cpu_read, appended |-> <<n.val>>]
              ELSE [exc |-> "none", state |-> n.val, history |-> h2,
                    reads |-> t.reads, cpu_read |-> n.cpu_read,
                    appended |-> <<n.val>>] :
                mean \in {PyDiv(sum.val, Num(Len(h2)))}}) :
              sum \in {PySum(h2)}}) :
            h2 \in {update_readings_history(history, n.val,
                                             MAX_READING_HISTORY_SIZE)}}) :
          n \in {normalise_current_temperature(t.val, attached, info)}}) :
        t \in {get_temperature(from, hat)}})

\* TemperatureSensor.update, undecorated: the exception that escapes, the
\* new _state and _readings_history, the collaborators asked, and the
\* reading appended to the history if the update got that far
TemperatureSensor_update(from, attached, old_state, history, hat, info) ==
    The({
      IF t.exc # "none"
      THEN [exc |-> t.exc, state |-> old_state, history |-> history,
            reads |-> t.reads, cpu_read |-> FALSE, appended |-> <<>>]
      ELSE The({
        IF n.exc # "none"
        THEN [exc |-> n.exc, state |-> old_state, history |-> history,
              reads |-> t.reads, cpu_read |-> n.cpu_read,
              appended |-> <<>>]
        ELSE The({
          The({
            IF sum.exc # "none"
            THEN [exc |-> sum.exc, state |-> old_state, history |-> h2,
                  reads |-> t.reads, cpu_read |-> n.cpu_read,
                  appended |-> <<n.val>>]
            ELSE The({
              IF mean.exc # "none"
              THEN [exc |-> mean.exc, state |-> old_state,
                    history |-> h2, reads |-> t.reads,
                    cpu_read |-> n.cpu_read, appended |-> <<n.val>>]
              ELSE [exc |-> "none", state |-> mean.val, history |-> h2,
                    reads |-> t.reads, cpu_read |-> n.cpu_read,
                    appended |-> <<n.val>>] :
                mean \in {PyDiv(sum.val, Num(Len(h2)))}}) :
              sum \in {PySum(h2)}}) :
            h2 \in {update_readings_history(history, n.val,
                                             MAX_READING_HISTORY_SIZE)}}) :
          n \in {normalise_current_temperature(t.val, attached, info)}}) :
        t \in {get_temperature(from, hat)}})

\* the body of update() of a sensor of kind k
Body(k, from, attached, old_state, history, hat, info) ==
    IF k = "humidity"
    THEN LET r == HumiditySensor_update(old_state, hat)
         IN  [exc |-> r.exc, state |-> r.state, history |-> history,
              reads |-> r.reads, cpu_read |-> FALSE, appended |-> <<>>]
    ELSE IF k = "pressure"
    THEN LET r == PressureSensor_update(old_state, hat)
         IN  [exc |-> r.exc, state |-> r.state, history |-> history,
              reads |-> r.reads, cpu_read |-> FALSE, appended |-> <<>>]
    ELSE TemperatureSensor_update(from, attached, old_state, history, hat,
                                  info)

-----------------------------------------------------------------------------
(* What the last operation was and did: for an update, whether the body   *)
(* ran, the exception that escaped it, the driver methods it called with   *)
(* their outcomes, the line of the CPU temperature source if asked, the    *)
(* length the readings history had when update() was called, and the       *)
(* readings appended to the history (by this update; by all updates so far *)
(* where the record is carried along).                                     *)

NoCall ==
    [op |-> "none", done |-> TRUE, sensor |-> 0, ran |-> FALSE,
     exc |-> "none", reads |-> <<>>, cpu_read |-> FALSE, info |-> NoInfo,
     old_len |-> 0, obtained |-> <<>>,
     history |-> <<>>, new_reading |-> None, max_history_size |-> 0,
     temperature |-> None, hat_attached |-> FALSE,
     result |-> None]

-----------------------------------------------------------------------------
(* The platform: sensors constructed by _sensor_factory / the constructors, *)
(* then updated by the host as time passes.                                 *)

FromSensorValues == {"humidity", "pressure", "both", "temperature"}

Configurations ==
    {[kind |-> "humidity", from_sensor |-> "", is_attached |-> FALSE],
     [kind |-> "pressure", from_sensor |-> "", is_attached |-> FALSE]}
    \cup {[kind |-> "temperature", from_sensor |-> f, is_attached |-> a] :
            f \in FromSensorValues, a \in BOOLEAN}

InitPlatform ==
    \E cfg \in Configurations :
        /\ sensors = {1}
        /\ kind = [s \in {1} |-> cfg.kind]
        /\ from_sensor = [s \in {1} |-> cfg.from_sensor]
        /\ is_attached = [s \in {1} |-> cfg.is_attached]
        /\ state = [s \in {1} |-> None]
        /\ readings_history = [s \in {1} |-> <<>>]
        /\ last_run = [s \in {1} |-> NoRun]
        /\ now = 0
        /\ call = NoCall

DeltaTimes == {30, 90}

\* time passes
Advance ==
    \E d \in DeltaTimes :
        /\ sensors # {}
        /\ now + d <= MaxTime
        /\ now' = now + d
        /\ call' = [NoCall EXCEPT !.op = "advance"]
        /\ UNCHANGED <<sensors, kind, from_sensor, is_attached, state,
                       readings_history, last_run>>

\* an attribute of every instance at once, as a class attribute would be
assign_class_attribute(f, s, v) == [x \in DOMAIN f |-> v]

\* self.<attribute> = v (or the in-place change of the list it holds) for
\* instance s: the attributes are created per instance by __init__
assign(f, s, v) == [f EXCEPT ![s] = v]

\* s.update(), the decorated method of sensor s, with the driver answering
\* from hats and the CPU temperature source from infos; c is the record of
\* the operation before it is filled in.  A run that is throttled reads
\* nothing; one that raises leaves the time of the last successful run as
\* it was
UpdateOf(s, hats, infos, c) ==
    IF update_runs(last_run[s], now)
    THEN \E hat \in hats :
           \E info \in infos :
             \E r \in {Body(kind[s], from_sensor[s], is_attached[s],
                            state[s], readings_history[s], hat, info)} :
               /\ state' = assign(state, s, r.state)
               /\ readings_history' = assign(readings_history, s, r.history)
               /\ last_run' = IF r.exc = "none"
                              THEN [last_run EXCEPT ![s] = now]
                              ELSE last_run
               /\ call' = [c EXCEPT
                             !.op = "update", !.sensor = s, !.ran = TRUE,
                             !.exc = r.exc, !.reads = r.reads,
                             !.cpu_read = r.cpu_read,
                             !.info = IF r.cpu_read THEN info ELSE NoInfo,
                             !.old_len = Len(readings_history[s]),
                             !.obtained = c.obtained \o r.appended]
               /\ UNCHANGED <<sensors, kind, from_sensor, is_attached, now>>
    ELSE /\ call' = [c EXCEPT
                       !.op = "update", !.sensor = s,
                       !.old_len = Len(readings_history[s])]
         /\ UNCHANGED <<sensors, kind, from_sensor, is_attached,
                        state, readings_history, last_run, now>>

\* the host calls s.update()
Update ==
    \E s \in sensors :
        UpdateOf(s, Hats(kind[s], from_sensor[s]),
                 IF kind[s] = "temperature" /\ is_attached[s]
                 THEN CpuInfos ELSE {NoInfo},
                 NoCall)

-----------------------------------------------------------------------------
(* The module-level helpers called on their own, as the unit tests do *)

Readings == {None, Num(10), Num(11)}

RECURSIVE SeqsUpTo(_, _)
SeqsUpTo(S, n) ==
    IF n = 0 THEN {<<>>}
    ELSE LET shorter == SeqsUpTo(S, n - 1)
         IN  shorter \cup {Append(q, x) : q \in shorter, x \in S}

\* 34.5 and 24.9 degrees
Temperatures == {None, Rat(69, 2), Rat(249, 10)}

UnitInfos == {Info489, Info51, InfoEmpty, InfoFailed}

InitNoPlatform ==
    /\ sensors = {}
    /\ kind = <<>>
    /\ from_sensor = <<>>
    /\ is_attached = <<>>
    /\ state = <<>>
    /\ readings_history = <<>>
    /\ last_run = <<>>
    /\ now = 0

InitHistoryCall ==
    /\ InitNoPlatform
    /\ \E h \in SeqsUpTo(Readings, MaxLen), r \in Readings, c \in 0..MaxCap :
         call = [NoCall EXCEPT !.op = "_update_readings_history",
                               !.done = FALSE, !.history = h,
                               !.new_reading = r, !.max_history_size = c]

InitNormaliseCall ==
    /\ InitNoPlatform
    /\ \E t \in Temperatures, a \in BOOLEAN, info \in UnitInfos :
         call = [NoCall EXCEPT !.op = "_normalise_current_temperature",
                               !.done = FALSE, !.temperature = t,
                               !.hat_attached = a, !.info = info]

\* _update_readings_history(history, new_reading, max_history_size) returns
CallUpdateReadingsHistory ==
    /\ call.op = "_update_readings_history" /\ ~call.done
    /\ call' = [call EXCEPT
                  !.done = TRUE,
                  !.result = update_readings_history(
                                 call.history, call.new_reading,
                                 call.max_history_size)]
    /\ UNCHANGED <<sensors, kind, from_sensor, is_attached, state,
                   readings_history, last_run, now>>

\* _normalise_current_temperature(temperature, hat_attached) returns or raises
CallNormaliseCurrentTemperature ==
    /\ call.op = "_normalise_current_temperature" /\ ~call.done
    /\ \E n \in {normalise_current_temperature(
                      call.temperature, call.hat_attached, call.info)} :
          call' = [call EXCEPT !.done = TRUE, !.exc = n.exc,
                               !.cpu_read = n.cpu_read, !.result = n.val]
    /\ UNCHANGED <<sensors, kind, from_sensor, is_attached, state,
                   readings_history, last_run, now>>

-----------------------------------------------------------------------------

Init == InitPlatform \/ InitHistoryCall \/ InitNormaliseCall

Next ==
    \/ Advance
    \/ Update
    \/ CallUpdateReadingsHistory
    \/ CallNormaliseCurrentTemperature

Spec == Init /\ [][Next]_vars

-----------------------------------------------------------------------------
(* Smoothing: one temperature sensor polled over six periods, the driver   *)
(* returning a number on every channel and the CPU temperature source a    *)
(* well-formed line.  call.obtained is carried from operation to operation *)
(* and lists every reading appended to the history since construction.     *)

\* time passes, by one of deltas and not beyond limit; c is the record of
\* the operation before it is filled in
Elapse(deltas, limit, c) ==
    \E d \in deltas :
        /\ now + d <= limit
        /\ now' = now + d
        /\ call' = [c EXCEPT !.op = "advance"]
        /\ UNCHANGED <<sensors, kind, from_sensor, is_attached, state,
                       readings_history, last_run>>

\* both temperature channels return a number
PresentHats ==
    {hat \in Hats("temperature", "both") :
        /\ hat.get_temperature_from_humidity.exc = "none"
        /\ hat.get_temperature_from_humidity.val # None
        /\ hat.get_temperature_from_pressure.exc = "none"
        /\ hat.get_temperature_from_pressure.val # None}

\* lines the CPU temperature is read from without error
ValidCpuInfos ==
    {info \in CpuInfos : get_cpu_temperature(info).exc = "none"}

\* polling periods after which an update is not throttled
EffectivePeriods == {d \in DeltaTimes : d > MIN_TIME_BETWEEN_UPDATES}

\* the record of the next operation, keeping the readings obtained so far
Carried == [NoCall EXCEPT !.obtained = call.obtained]

InitSmoothing ==
    /\ InitPlatform
    /\ kind[1] = "temperature"

ElapseSmoothing == Elapse(EffectivePeriods, MaxTimeSmoothing, Carried)

UpdateSmoothing ==
    \E s \in sensors :
        UpdateOf(s, PresentHats,
                 IF is_attached[s] THEN ValidCpuInfos ELSE {NoInfo},
                 Carried)

NextSmoothing == ElapseSmoothing \/ UpdateSmoothing

SpecSmoothing == InitSmoothing /\ [][NextSmoothing]_vars

-----------------------------------------------------------------------------
(* Two sensor instances set up by one call of setup_platform, each with a *)
(* driver object of its own                                               *)

\* _sensor_factory(config, sensor_type, sense_hat): the sensor constructed,
\* None for a sensor type that is not known; every temperature sensor of a
\* platform gets the platform's source and attachment
sensor_factory(config, sensor_type) ==
    IF sensor_type = "humidity"
    THEN [kind |-> "humidity", from_sensor |-> "", is_attached |-> FALSE]
    ELSE IF sensor_type = "pressure"
    THEN [kind |-> "pressure", from_sensor |-> "", is_attached |-> FALSE]
    ELSE IF sensor_type = "temperature"
    THEN [kind |-> "temperature",
          from_sensor |-> config.temperature_from_sensor,
          is_attached |-> config.is_hat_attached]
    ELSE None

\* "if sensor is not None"
IsDevice(sensor) == sensor # None

\* the devices setup_platform hands to add_devices: a sensor for each
\* display option, in their order, the options of no known type skipped
setup_platform(config) ==
    SelectSeq([i \in 1..Len(config.display_options) |->
                 sensor_factory(config, config.display_options[i])],
              IsDevice)

\* platform configurations whose display options give two sensors
PairPlatforms ==
    {[display_options |-> <<"temperature", "temperature">>,
      temperature_from_sensor |-> "pressure", is_hat_attached |-> FALSE],
     [display_options |-> <<"temperature", "pressure">>,
      temperature_from_sensor |-> "pressure", is_hat_attached |-> TRUE],
     [display_options |-> <<"humidity", "temperature">>,
      temperature_from_sensor |-> "pressure", is_hat_attached |-> FALSE],
     [display_options |-> <<"humidity", "wind", "pressure">>,
      temperature_from_sensor |-> "both", is_hat_attached |-> FALSE]}

InitPair ==
    \E config \in PairPlatforms :
        \E devices \in {setup_platform(config)} :
            /\ sensors = 1..Len(devices)
            /\ kind = [s \in 1..Len(devices) |-> devices[s].kind]
            /\ from_sensor =
                   [s \in 1..Len(devices) |-> devices[s].from_sensor]
            /\ is_attached =
                   [s \in 1..Len(devices) |-> devices[s].is_attached]
            /\ state = [s \in 1..Len(devices) |-> None]
            /\ readings_history = [s \in 1..Len(devices) |-> <<>>]
            /\ last_run = [s \in 1..Len(devices) |-> NoRun]
            /\ now = 0
            /\ call = NoCall

AdvancePair == Elapse(DeltaTimes, MaxTimePair, NoCall)

NextPair == AdvancePair \/ Update

SpecPair == InitPair /\ [][NextPair]_vars

-----------------------------------------------------------------------------
(* Properties *)

Temperature(s) == s \in sensors /\ kind[s] = "temperature"

\* an update() of sensor s has just been called
Updated(s) == call.op = "update" /\ call.sensor = s

\* ... and its body ran
Ran(s) == Updated(s) /\ call.ran

HistoryCalled == call.op = "_update_readings_history" /\ call.done

NormaliseCalled == call.op = "_normalise_current_temperature" /\ call.done

\* the last k elements of q
LastK(q, k) == SubSeq(q, Len(q) - k + 1, Len(q))

\* C1: the readings history of a sensor never holds more than
\* MAX_READING_HISTORY_SIZE readings, whatever updates were called, and
\* _update_readings_history returns at most max_history_size readings for
\* any starting history, longer than the capacity or not.
HistoryNeverExceedsCapacity ==
    /\ \A s \in sensors :
         Len(readings_history[s]) <= MAX_READING_HISTORY_SIZE
    /\ HistoryCalled => Len(call.result) <= call.max_history_size

\* a temperature update that appended a number to a full history, evicted
\* the oldest reading and published
HistoryAtCapacityAfterEviction ==
    \E s \in sensors :
        /\ Ran(s) /\ Temperature(s)
        /\ call.old_len = MAX_READING_HISTORY_SIZE
        /\ Len(readings_history[s]) = MAX_READING_HISTORY_SIZE
        /\ readings_history[s][MAX_READING_HISTORY_SIZE] # None
        /\ call.exc = "none"

\* C2: _update_readings_history(h, r, c), c >= 1, leaves the last
\* min(len(h) + 1, c) elements of h followed by r, in their order; r may be
\* None and several readings may be evicted by one call.
HistoryKeepsMostRecent ==
    (HistoryCalled /\ call.max_history_size >= 1) =>
        call.result =
            LastK(Append(call.history, call.new_reading),
                  Min(Len(call.history) + 1, call.max_history_size))

\* an absent reading appended to a history longer than the capacity: two
\* or more readings evicted at once
SeveralEvictedAtOnce ==
    /\ HistoryCalled
    /\ call.max_history_size >= 1
    /\ Len(call.history) > call.max_history_size
    /\ call.new_reading = None
    /\ Len(call.result) = call.max_history_size
    /\ call.result[Len(call.result)] = None

\* the outcome of the i-th driver method the update called
ReadOutcome(c, i) == c.reads[i][2]

\* every driver method the update called returned, and so did the CPU
\* temperature source if it was asked
CollaboratorsAnswered(c) ==
    /\ \A i \in 1..Len(c.reads) : ReadOutcome(c, i).exc = "none"
    /\ c.cpu_read => get_cpu_temperature(c.info).exc = "none"

\* every driver method the update called returned a number
ReadsPresent(c) ==
    \A i \in 1..Len(c.reads) :
        ReadOutcome(c, i).exc = "none" /\ ReadOutcome(c, i).val # None

AllPresent(h) == \A i \in 1..Len(h) : h[i] # None

\* the arithmetic mean of a non-empty sequence of numbers in float
\* arithmetic: the terms added from the first to the last, the total divided
\* by their number
RECURSIVE Total(_)
Total(h) ==
    IF h = <<>> THEN Num(0)
    ELSE RAdd(Total(SubSeq(h, 1, Len(h) - 1)), h[Len(h)])

Mean(h) == RDiv(Total(h), Num(Len(h)))

\* Exact values: <<sign, man, exp>> stands for sign * man * 2^exp, man any
\* natural number; every float is one of them, and their sums and
\* differences are computed without rounding

\* a + b exactly
ExactAdd(a, b) ==
    LET e == Min(a[3], b[3])
        x == BShl(a[2], a[3] - e)
        y == BShl(b[2], b[3] - e)
    IN  IF a[1] = b[1] THEN <<a[1], BAdd(x, y), e>>
        ELSE IF BCmp(x, y) >= 0 THEN <<a[1], BSub(x, y), e>>
        ELSE <<b[1], BSub(y, x), e>>

\* a - b exactly
ExactSub(a, b) == ExactAdd(a, <<-b[1], b[2], b[3]>>)

\* n * a exactly, for 0 <= n < Base
ExactTimes(n, a) == <<a[1], BMulAdd(a[2], n, 0), a[3]>>

\* the sum of the numbers of h exactly
RECURSIVE ExactTotal(_)
ExactTotal(h) ==
    IF h = <<>> THEN Zero
    ELSE ExactAdd(ExactTotal(SubSeq(h, 1, Len(h) - 1)), h[Len(h)])

\* a <= b
ExactLeq(a, b) == LET d == ExactSub(a, b) IN d[2] = <<>> \/ d[1] = -1

\* the rounding error allowed to a published mean: 2^-ToleranceBits degrees
ToleranceBits == 40

Tolerance == <<1, <<1>>, -ToleranceBits>>

\* x is the mean of the numbers of h, exactly: Len(h) * x is their sum
IsExactMean(x, h) == ExactSub(ExactTimes(Len(h), x), ExactTotal(h))[2] = <<>>

\* x is within Tolerance of the mean of the numbers of h
IsMeanWithinTolerance(x, h) ==
    LET d == ExactSub(ExactTimes(Len(h), x), ExactTotal(h))
    IN  ExactLeq(<<1, d[2], d[3]>>, ExactTimes(Len(h), Tolerance))

\* C3: an update() called less than MIN_TIME_BETWEEN_UPDATES after the last
\* successful run of the same sensor changes neither its state nor its
\* readings history, whatever the driver would return.
ThrottledUpdateIsNoOp ==
    [][\A s \in sensors :
          (/\ call'.op = "update" /\ call'.sensor = s
           /\ last_run[s] # NoRun
           /\ now - last_run[s] < MIN_TIME_BETWEEN_UPDATES)
          => /\ ~call'.ran
             /\ state'[s] = state[s]
             /\ readings_history'[s] = readings_history[s]]_vars

\* a temperature sensor with a published state, called again 30 seconds
\* after its last successful run
ThrottledCallInsideInterval ==
    \E s \in sensors :
        /\ Updated(s) /\ ~call.ran /\ Temperature(s)
        /\ last_run[s] # NoRun
        /\ now - last_run[s] = 30
        /\ state[s] # None

\* the state the body of update() publishes from what it read, when it
\* publishes one
PublishedFromReads(c, k, st, h) ==
    /\ c.exc = "none"
    /\ IF k = "temperature"
       THEN h # <<>> /\ AllPresent(h) /\ st = Mean(h)
       ELSE st = ReadOutcome(c, 1).val

\* C4: the first update() of a sensor, and every update() called more than
\* MIN_TIME_BETWEEN_UPDATES after its last successful run, runs the body,
\* which publishes a state derived from the driver values read by that
\* call (present or absent).
UpdateOutsideIntervalPublishes ==
    [][\A s \in sensors :
          (/\ call'.op = "update" /\ call'.sensor = s
           /\ \/ last_run[s] = NoRun
              \/ now - last_run[s] > MIN_TIME_BETWEEN_UPDATES)
          => /\ call'.ran
             /\ CollaboratorsAnswered(call') =>
                    PublishedFromReads(call', kind[s], state'[s],
                                       readings_history'[s])]_vars

\* C5: a humidity (pressure) sensor whose update() body runs reads
\* get_humidity() (get_pressure()) once and publishes exactly what it
\* returned, None included; it keeps no history and asks no CPU temperature.
RawValuePublishedVerbatim ==
    \A s \in sensors :
        (Ran(s) /\ kind[s] \in {"humidity", "pressure"}) =>
            /\ Len(call.reads) = 1
            /\ call.reads[1][1] = IF kind[s] = "humidity"
                                  THEN "get_humidity" ELSE "get_pressure"
            /\ ReadOutcome(call, 1).exc = "none" =>
                   /\ call.exc = "none"
                   /\ state[s] = ReadOutcome(call, 1).val
            /\ readings_history[s] = <<>>
            /\ ~call.cpu_read

\* a humidity sensor that published 56.789
HumidityPublished ==
    \E s \in sensors :
        /\ Ran(s) /\ kind[s] = "humidity"
        /\ call.exc = "none"
        /\ ReadOutcome(call, 1) = Ok(Rat(56789, 1000))
        /\ state[s] = Rat(56789, 1000)

\* C6: the first update of a temperature sensor that is not attached, with
\* an empty history and present readings, publishes the humidity channel's
\* value for source "humidity", the pressure channel's for "pressure", and
\* their arithmetic mean for "both".
SourceSelection ==
    \A s \in sensors :
        (/\ Ran(s) /\ Temperature(s) /\ ~is_attached[s]
         /\ call.old_len = 0
         /\ from_sensor[s] \in {"humidity", "pressure", "both"}
         /\ ReadsPresent(call))
        => /\ call.exc = "none"
           /\ from_sensor[s] = "humidity" =>
                 /\ call.reads[1][1] = "get_temperature_from_humidity"
                 /\ state[s] = ReadOutcome(call, 1).val
           /\ from_sensor[s] = "pressure" =>
                 /\ call.reads[1][1] = "get_temperature_from_pressure"
                 /\ state[s] = ReadOutcome(call, 1).val
           /\ from_sensor[s] = "both" =>
                 /\ Len(call.reads) = 2
                 /\ call.reads[1][1] = "get_temperature_from_humidity"
                 /\ call.reads[2][1] = "get_temperature_from_pressure"
                 /\ LET h == ReadOutcome(call, 1).val
                        p == ReadOutcome(call, 2).val
                    IN  state[s] = RDiv(RAdd(h, p), Num(2))

\* source "both", humidity channel 19.5, pressure channel 21.5: 20.5
BothPublishedTheMean ==
    \E s \in sensors :
        /\ Ran(s) /\ Temperature(s) /\ ~is_attached[s]
        /\ from_sensor[s] = "both"
        /\ call.old_len = 0
        /\ ReadOutcome(call, 1) = Ok(Rat(39, 2))
        /\ ReadOutcome(call, 2) = Ok(Rat(43, 2))
        /\ state[s] = Rat(41, 2)

\* C7: with source "both", an empty history and a board that is not
\* attached, an update that reads None from one channel and a number from
\* the other publishes that number.
BothFallsBackToAvailableChannel ==
    \A s \in sensors :
        (/\ Ran(s) /\ Temperature(s) /\ ~is_attached[s]
         /\ from_sensor[s] = "both"
         /\ call.old_len = 0
         /\ Len(call.reads) = 2
         /\ ReadOutcome(call, 1).exc = "none"
         /\ ReadOutcome(call, 2).exc = "none"
         /\ (ReadOutcome(call, 1).val = None)
                # (ReadOutcome(call, 2).val = None))
        => /\ call.exc = "none"
           /\ state[s] = IF ReadOutcome(call, 1).val = None
                         THEN ReadOutcome(call, 2).val
                         ELSE ReadOutcome(call, 1).val

\* C8: with source "both", an update that reads None from both channels of
\* a sensor whose history holds no number returns normally and the state
\* is None.
BothAbsentPublishesAbsent ==
    \A s \in sensors :
        (/\ Ran(s) /\ Temperature(s)
         /\ from_sensor[s] = "both"
         /\ Len(call.reads) = 2
         /\ ReadOutcome(call, 1) = Ok(None)
         /\ ReadOutcome(call, 2) = Ok(None)
         /\ \A i \in 1..Len(readings_history[s]) :
                readings_history[s][i] = None)
        => /\ call.exc = "none"
           /\ state[s] = None

\* C9: _normalise_current_temperature returns its input unchanged, without
\* asking the CPU temperature, when the input is None or the board is not
\* attached.
NormalisePassesThrough ==
    (NormaliseCalled /\ (call.temperature = None \/ ~call.hat_attached)) =>
        /\ call.exc = "none"
        /\ call.result = call.temperature
        /\ ~call.cpu_read

\* None handed in for an attached board
NonePassedThroughWhenAttached ==
    /\ NormaliseCalled
    /\ call.temperature = None /\ call.hat_attached
    /\ call.exc = "none" /\ call.result = None /\ ~call.cpu_read

\* C10: for a number t and an attached board,
\* _normalise_current_temperature asks the CPU temperature and, when that
\* is cpu, returns t - ((cpu - t) / 1.5) as float arithmetic gives it;
\* 34.5 at a CPU temperature of 48.9 gives 24.9.
CompensationFormula ==
    (NormaliseCalled /\ call.temperature # None /\ call.hat_attached) =>
        LET t   == call.temperature
            cpu == get_cpu_temperature(call.info)
        IN  /\ call.cpu_read
            /\ call.exc = cpu.exc
            /\ cpu.exc = "none" =>
                   call.result =
                       RSub(t, RDiv(RSub(cpu.val, t), Rat(3, 2)))
            /\ (call.info = Info489 /\ t = Rat(69, 2)) =>
                   call.result = Rat(249, 10)

\* 34.5 compensated at "temp=48.9'C\n"
CompensatedExample ==
    /\ NormaliseCalled
    /\ call.temperature = Rat(69, 2) /\ call.hat_attached
    /\ call.info = Info489
    /\ call.cpu_read /\ call.exc = "none"
    /\ call.result = Rat(249, 10)

\* the numbers held in a history
IsPresent(x) == x # None

Present(h) == SelectSeq(h, IsPresent)

\* every driver method the update called returned None
NoReading(c) ==
    /\ c.reads # <<>>
    /\ \A i \in 1..Len(c.reads) : ReadOutcome(c, i) = Ok(None)

\* C11: whatever its kind and whatever the collaborators answer, an
\* update() returns to its caller; no exception escapes it.
FailuresContained ==
    \A s \in sensors : Updated(s) => call.exc = "none"

\* C12: an update() that raises leaves the state of its sensor as it was
\* before the call.
StaleStateRetainedOnFailure ==
    [][\A s \in sensors :
          (/\ call'.op = "update" /\ call'.sensor = s
           /\ call'.ran /\ call'.exc # "none")
          => state'[s] = state[s]]_vars

\* a temperature sensor that had published a number and whose next update
\* raised: the number is still there
FailedWithPublishedState ==
    \E s \in sensors :
        /\ Ran(s) /\ Temperature(s)
        /\ call.exc # "none"
        /\ last_run[s] # NoRun
        /\ state[s] # None

\* C13: when the history of a temperature sensor holds at least one number
\* and an update whose body runs reads None from every channel it asks, the
\* state afterwards is a number: the mean of the numbers the history held
\* before the update, or of those it holds after it.
SmoothingRetainedWithoutReading ==
    [][\A s \in sensors :
          (/\ call'.op = "update" /\ call'.sensor = s /\ call'.ran
           /\ kind[s] = "temperature"
           /\ Present(readings_history[s]) # <<>>
           /\ NoReading(call'))
          => /\ state'[s] # None
             /\ \/ state'[s] = Mean(Present(readings_history[s]))
                \/ /\ Present(readings_history'[s]) # <<>>
                   /\ state'[s] = Mean(Present(readings_history'[s]))]_vars

\* the body of the update of a temperature sensor ran and a channel
\* returned None or the CPU temperature source failed
AbsentOrCpuFailure(c) ==
    /\ c.op = "update" /\ c.ran
    /\ \/ \E i \in 1..Len(c.reads) : ReadOutcome(c, i) = Ok(None)
       \/ c.cpu_read /\ get_cpu_temperature(c.info).exc # "none"

\* C14: when an update of a temperature sensor whose body ran with an
\* absent reading or a failing CPU temperature source is followed by an
\* update of the same sensor whose body runs and whose collaborators all
\* return valid values, that update returns normally and publishes a
\* number, the mean of the numbers held in the history.
NextTickIndependentOfFailure ==
    [][\A s \in sensors :
          (/\ kind[s] = "temperature"
           /\ call.sensor = s /\ AbsentOrCpuFailure(call)
           /\ call'.op = "update" /\ call'.sensor = s /\ call'.ran
           /\ ReadsPresent(call') /\ CollaboratorsAnswered(call'))
          => /\ call'.exc = "none"
             /\ state'[s] # None
             /\ state'[s] = Mean(Present(readings_history'[s]))]_vars

\* C17: update() of a temperature sensor never raises ZeroDivisionError:
\* whenever it reaches the averaging step (it has appended a reading, None
\* or not), the history it divides by the length of holds at least one
\* entry.
AveragingNeverDividesByZero ==
    \A s \in sensors :
        (Ran(s) /\ Temperature(s)) =>
            /\ call.exc # "ZeroDivisionError"
            /\ call.obtained # <<>> => Len(readings_history[s]) >= 1

\* the first update of a temperature sensor, on an empty history, reached
\* the averaging step with one entry and published it
AveragedSingleEntry ==
    \E s \in sensors :
        /\ Ran(s) /\ Temperature(s)
        /\ call.old_len = 0
        /\ Len(call.obtained) = 1
        /\ Len(readings_history[s]) = 1
        /\ call.exc = "none"
        /\ state[s] = readings_history[s][1]

\* C18: an update() of a temperature sensor that raises leaves the readings
\* history of the sensor as it was before the call.
FailedTickKeepsHistory ==
    [][\A s \in sensors :
          (/\ call'.op = "update" /\ call'.sensor = s
           /\ kind[s] = "temperature"
           /\ call'.ran /\ call'.exc # "none")
          => readings_history'[s] = readings_history[s]]_vars

\* C19 as stated: for a temperature sensor that is not attached and whose
\* history holds numbers only (every reading since the oldest one held was
\* present), the state is a number between the smallest and the largest
\* reading held.
StateWithinHistoryRange ==
    \A s \in sensors :
        (/\ Temperature(s) /\ ~is_attached[s]
         /\ readings_history[s] # <<>>
         /\ AllPresent(readings_history[s]))
        => /\ state[s] # None
           /\ \E i \in 1..Len(readings_history[s]) :
                  RLeq(readings_history[s][i], state[s])
           /\ \E i \in 1..Len(readings_history[s]) :
                  RLeq(state[s], readings_history[s][i])

\* C19: for a temperature sensor that is not attached and whose history
\* holds numbers only, the state is a number that is no more than the
\* rounding error of the sum and the division (Tolerance) below the
\* smallest reading held, and no more than that above the largest.
StateWithinRoundedHistoryRange ==
    \A s \in sensors :
        (/\ Temperature(s) /\ ~is_attached[s]
         /\ readings_history[s] # <<>>
         /\ AllPresent(readings_history[s]))
        => /\ state[s] # None
           /\ \E i \in 1..Len(readings_history[s]) :
                  ExactLeq(ExactSub(readings_history[s][i], Tolerance),
                           state[s])
           /\ \E i \in 1..Len(readings_history[s]) :
                  ExactLeq(state[s],
                           ExactAdd(readings_history[s][i], Tolerance))

\* the same reading held three times and a state published below it, by
\* less than the rounding error allowed
StateRoundedBelowSmallestReading ==
    \E s \in sensors :
        /\ Ran(s) /\ Temperature(s) /\ ~is_attached[s]
        /\ call.exc = "none"
        /\ Len(readings_history[s]) = 3
        /\ AllPresent(readings_history[s])
        /\ \A i \in 1..Len(readings_history[s]) :
               /\ ~RLeq(readings_history[s][i], state[s])
               /\ ExactLeq(ExactSub(readings_history[s][i], Tolerance),
                           state[s])

\* C20: an update of a temperature sensor whose body runs reads only
\* get_temperature_from_humidity() for source "humidity", only
\* get_temperature_from_pressure() for source "pressure", and for any other
\* source the humidity channel and then (once that returned) the pressure
\* channel, the raw temperature being their mean.
UnknownSourceTreatedAsBoth ==
    \A s \in sensors :
        (Ran(s) /\ Temperature(s)) =>
            /\ from_sensor[s] = "humidity" =>
                  /\ Len(call.reads) = 1
                  /\ call.reads[1][1] = "get_temperature_from_humidity"
            /\ from_sensor[s] = "pressure" =>
                  /\ Len(call.reads) = 1
                  /\ call.reads[1][1] = "get_temperature_from_pressure"
            /\ from_sensor[s] \notin {"humidity", "pressure"} =>
                  /\ call.reads # <<>>
                  /\ call.reads[1][1] = "get_temperature_from_humidity"
                  /\ ReadOutcome(call, 1).exc = "none" =>
                        /\ Len(call.reads) = 2
                        /\ call.reads[2][1] = "get_temperature_from_pressure"
                  /\ (ReadsPresent(call) /\ ~is_attached[s]) =>
                        /\ call.exc = "none"
                        /\ call.obtained =
                               <<Mean(<<ReadOutcome(call, 1).val,
                                        ReadOutcome(call, 2).val>>)>>

\* source "temperature" (neither "humidity" nor "pressure"): both channels
\* read, 19.5 and 21.5, and 20.5 appended to the empty history and published
UnknownSourceReadBoth ==
    \E s \in sensors :
        /\ Ran(s) /\ Temperature(s) /\ ~is_attached[s]
        /\ from_sensor[s] = "temperature"
        /\ call.old_len = 0
        /\ Len(call.reads) = 2
        /\ ReadOutcome(call, 1) = Ok(Rat(39, 2))
        /\ ReadOutcome(call, 2) = Ok(Rat(43, 2))
        /\ call.obtained = <<Rat(41, 2)>>
        /\ state[s] = Rat(41, 2)

\* C15 as stated: while every update of a temperature sensor whose body
\* ran obtained a number (k of them so far, compensated when the board is
\* attached), the state is the arithmetic mean of the last min(k, 5) of
\* them: the first reading itself for k = 1.
SmoothingIsExactMean ==
    \A s \in sensors :
        LET k == Len(call.obtained)
        IN  k >= 1 =>
              /\ AllPresent(call.obtained)
              /\ readings_history[s] =
                     LastK(call.obtained, Min(k, MAX_READING_HISTORY_SIZE))
              /\ IsExactMean(state[s],
                             LastK(call.obtained,
                                   Min(k, MAX_READING_HISTORY_SIZE)))
              /\ k = 1 => state[s] = call.obtained[1]

\* C15: while every update of a temperature sensor whose body ran obtained
\* a number (k of them so far, compensated when the board is attached), the
\* state is the mean of the last min(k, 5) of them as float arithmetic
\* gives it (the readings added from the oldest to the newest, the total
\* divided by their number), which is within Tolerance of their arithmetic
\* mean: the first reading itself for k = 1, and not depending on the first
\* for k = 6.
SmoothingOverLastReadings ==
    \A s \in sensors :
        LET k == Len(call.obtained)
            last == LastK(call.obtained, Min(k, MAX_READING_HISTORY_SIZE))
        IN  k >= 1 =>
              /\ AllPresent(call.obtained)
              /\ readings_history[s] = last
              /\ state[s] = Mean(last)
              /\ IsMeanWithinTolerance(state[s], last)
              /\ k = 1 => state[s] = call.obtained[1]

\* the sixth reading obtained: the state is the mean of readings two to
\* six, which differs from the mean the first reading would give
SixthTickForgotFirst ==
    \E s \in sensors :
        /\ Ran(s) /\ call.exc = "none"
        /\ Len(call.obtained) = MAX_READING_HISTORY_SIZE + 1
        /\ state[s] = Mean(Tail(call.obtained))
        /\ state[s] #
               Mean(SubSeq(call.obtained, 1, MAX_READING_HISTORY_SIZE))
        /\ state[s] # Mean(call.obtained)

\* C16: an update() of one sensor, throttled or not, raising or not,
\* leaves the state, the readings history and the time of the last
\* successful run of every other sensor as they were, and whether its body
\* runs depends on its own last successful run only.
InstancesIsolated ==
    [][\A s \in sensors :
          (call'.op = "update" /\ call'.sensor = s)
          => /\ \A o \in sensors \ {s} :
                   /\ state'[o] = state[o]
                   /\ readings_history'[o] = readings_history[o]
                   /\ last_run'[o] = last_run[o]
             /\ call'.ran <=>
                    \/ last_run[s] = NoRun
                    \/ now - last_run[s] > MIN_TIME_BETWEEN_UPDATES]_vars

\* a temperature sensor of a platform of two updates and publishes while the
\* other temperature sensor, with a history of its own, is inside its
\* interval and keeps the state it published
OtherRanWhileOneThrottled ==
    \E s \in sensors, o \in sensors :
        /\ s # o
        /\ Temperature(s) /\ Temperature(o)
        /\ Ran(o) /\ call.exc = "none"
        /\ last_run[o] = now
        /\ last_run[s] # NoRun
        /\ now - last_run[s] < MIN_TIME_BETWEEN_UPDATES
        /\ state[s] # None /\ state[o] # None
        /\ readings_history[s] # <<>>
        /\ readings_history[s] # readings_history[o]

====
